---- MODULE Spec2Model ----
(***************************************************************************)
(* Model of the Breathing-Dandelion canvas (src/components/               *)
(* DandelionCanvas.tsx): the per-frame render callback (spring sway,       *)
(* happy-sway gesture detector, blow detection, sparkle and seed update),  *)
(* the two setTimeout callbacks of the dispersal cycle, the publication of *)
(* props into propsRef, and the effect cleanup.                            *)
(*                                                                         *)
(* Numbers are fixed point.  Angles, angular velocities and swayValue are  *)
(* in millionths (1e-6); blowStrength and alpha are in thousandths; seed   *)
(* coordinates and velocities are in thousandths of a pixel; arguments of  *)
(* sin/cos are in 1e-4 rad and their results in 1e-4.  JavaScript rounds   *)
(* each floating point operation to nearest, so divisions round to nearest.*)
(***************************************************************************)
EXTENDS Integers, Sequences, FiniteSets, TLC

---------------------------------------------------------------------------
(* Fixed-point arithmetic                                                  *)

Abs(a) == IF a < 0 THEN -a ELSE a

Min(a, b) == IF a < b THEN a ELSE b

\* a / b rounded to the nearest integer (b > 0), halves away from zero
RoundDiv(a, b) == IF a >= 0 THEN (a + b \div 2) \div b
                  ELSE -((b \div 2 - a) \div b)

\* a * b / c, rounded, for products that would not fit 32 bits: b = c*q + r
MulDiv(a, b, c) == a * (b \div c) + RoundDiv(a * (b % c), c)

\* Math.PI in 1e-4 rad
Pi4 == 31416

HalfPi4 == Pi4 \div 2

\* sin on [0, pi/2], argument and result in 1e-4: x - x^3/3! + x^5/5! - x^7/7!
SinQ(x) ==
    LET x2 == RoundDiv(x * x, 10000)
        t3 == RoundDiv(x * x2, 60000)
        t5 == RoundDiv(t3 * x2, 200000)
        t7 == RoundDiv(t5 * x2, 420000)
    IN  x - t3 + t5 - t7

\* Math.sin, argument and result in 1e-4
Sin4(x) ==
    LET m == x % (2 * Pi4)
        h == IF m > Pi4 THEN m - Pi4 ELSE m
        q == IF h > HalfPi4 THEN Pi4 - h ELSE h
    IN  IF m > Pi4 THEN -SinQ(q) ELSE SinQ(q)

\* Math.cos, argument and result in 1e-4
Cos4(x) == Sin4(x + HalfPi4)

RECURSIVE SqrtIter(_, _, _)
\* largest r in lo..hi with r*r <= n
SqrtIter(n, lo, hi) ==
    IF lo >= hi THEN lo
    ELSE LET mid == (lo + hi + 1) \div 2
         IN  IF mid * mid <= n THEN SqrtIter(n, mid, hi)
                               ELSE SqrtIter(n, lo, mid - 1)

\* Math.sqrt of an integer n in 0..2^30, rounded down
ISqrt(n) == SqrtIter(n, 0, 32768)

---------------------------------------------------------------------------
(* Program constants (DandelionCanvas.tsx lines 14-22) and model bounds     *)

\* seeds in the store; the program has 1500, the model a few
PARTICLE_COUNT == 4

\* sparkles in the pool; the program has 600, the model a few
SPARKLE_COUNT == 1

\* pixels
SPHERE_RADIUS == 160

\* thousandths: 0.75
BLOW_THRESHOLD == 750

\* milliseconds: the delay of the first setTimeout
REGROW_TIME == 4500

\* milliseconds: the delay of the second setTimeout (the literal 2000)
IDLE_TIME == 2000

\* millionths: 0.15
MOTION_DEADZONE == 150000

\* millionths: 0.25
SWAY_COUNT_THRESHOLD == 250000

\* millionths: the literal 0.1 of the CENTER test
CENTER_THRESHOLD == 100000

\* frames rendered in one behaviour of Spec
MaxFrames == 4

\* frames rendered in one behaviour of GestureSpec
MaxAngles == 6

\* frames of each of the three phases of the sway scenario
PhaseFrames == 200

\* frames of the dispersal cycle on the clock
MaxClockFrames == 830

\* frames rendered in one behaviour of PropsSpec
MaxPropFrames == 2

\* frames rendered in one behaviour of LiveSpec
MaxLiveFrames == 3

\* the largest number of seeds initParticles is evaluated for
MaxSeeds == 12

\* frames of ambient drift in one behaviour of DriftSpec
MaxDriftFrames == 600

\* clicks on the start button in one behaviour of AppSpec
MaxClicks == 2

\* rounds of the sensor loop in one behaviour of AppSpec
MaxSamples == 2

\* the value the host publishes as swayValue (millionths), beyond the deadzone;
\* before the first publication swayValue is 0
SwayValues == {-500000}

\* the values the host publishes as blowStrength (thousandths): silence, the
\* threshold itself, and a blow
BlowValues == {0, 750, 900}

\* milliseconds between two animation frames (60 Hz and 30 Hz displays)
FrameDts == {16, 33}

\* timestamps of the frame request that starts the loop (ms)
StartTimes == {0, 2500, 7000}

\* window sizes <<innerWidth, innerHeight>>: a phone and a desktop
WindowSizes == {<<375, 667>>, <<1280, 720>>}

\* smoothed angles fed to the gesture detector (millionths): beyond either
\* side threshold, on the side thresholds, on the center thresholds, and 0
SmoothedAngles == {-300000, -250000, -100000, 0, 100000, 250000, 300000}

\* Math.random() in initParticles: alpha = 0.4 + random * 0.6 (thousandths)
AlphaDraws == {400, 990}

\* Math.random() in the dispersal impulse: explosionForce = 5 + random * 10 and
\* three jitters (random - 0.5) * 5, in thousandths; the two extreme draws
ImpulseDraws == { [force |-> 5000,  jx |-> -2500, jy |-> -2500, jz |-> -2500],
                  [force |-> 14990, jx |-> 2490,  jy |-> 2490,  jz |-> 2490] }

\* Math.random() in triggerSparkles (lines 185, 187, 192, 196), in thousandths:
\* the draws of z, of speed, of vz and of maxLife; the two extreme draws
MaxLifeDraws == { [z |-> 0,   speed |-> 999, vz |-> 0,   maxLife |-> 0],
                  [z |-> 999, speed |-> 0,   vz |-> 999, maxLife |-> 999] }

\* n successive results of Math.random(), each mapped into S: every draw the
\* same value of S, or two values of S alternating
DrawVectors(S, n) ==
    { [i \in 1..n |-> IF i % 2 = 1 THEN a ELSE b] : a \in S, b \in S }

---------------------------------------------------------------------------
(* initParticles, initSparkles                                              *)

\* mutant: the ring radius sqrt(1 - y * y) (line 118) replaced by 1
UnitPointOf_OnCylinder(n, i) ==
    LET y == 10000 - RoundDiv(i * 20000, n - 1)
        theta == 24000 * i
    IN  [x |-> Cos4(theta), y |-> y, z |-> Sin4(theta)]

\* coordinates of seed i (0-based) of n on the unit sphere, in 1e-4 (lines
\* 114-122); phi = pi * (3 - sqrt(5)) = 2.4000
UnitPointOf(n, i) ==
    LET y == 10000 - RoundDiv(i * 20000, n - 1)
        radius == ISqrt(10000 * 10000 - y * y)
        theta == 24000 * i
    IN  [x |-> RoundDiv(Cos4(theta) * radius, 10000),
         y |-> y,
         z |-> RoundDiv(Sin4(theta) * radius, 10000)]

\* the origin of seed i of n, in thousandths of a pixel (lines 125-130)
OriginOf(n, i) ==
    LET u == UnitPointOf(n, i)
    IN  [x |-> RoundDiv(u.x * SPHERE_RADIUS, 10),
         y |-> RoundDiv(u.y * SPHERE_RADIUS, 10),
         z |-> RoundDiv(u.z * SPHERE_RADIUS, 10)]

\* coordinates of seed i (0-based) on the unit sphere, in 1e-4
UnitPoint(i) == UnitPointOf(PARTICLE_COUNT, i)

\* the seed pushed for index i with the drawn alpha (thousandths of a pixel)
NewParticle(i, alpha) ==
    LET u == UnitPoint(i)
        ox == RoundDiv(u.x * SPHERE_RADIUS, 10)
        oy == RoundDiv(u.y * SPHERE_RADIUS, 10)
        oz == RoundDiv(u.z * SPHERE_RADIUS, 10)
    IN  [x |-> ox, y |-> oy, z |-> oz,
         origX |-> ox, origY |-> oy, origZ |-> oz,
         vx |-> 0, vy |-> 0, vz |-> 0,
         alpha |-> alpha, isAttached |-> TRUE]

initParticles(alphas) ==
    [i \in 1..PARTICLE_COUNT |-> NewParticle(i - 1, alphas[i])]

initSparkles ==
    [i \in 1..SPARKLE_COUNT |->
        [z |-> 0, vz |-> 0, life |-> 0, maxLife |-> 0, alpha |-> 0]]

---------------------------------------------------------------------------
(* render: Spring Sway (lines 241-262)                                      *)

\* mutant: a wind of ten times the amplitude, 0.2 and 0.15
IdleWind_Gale(t) == Sin4(t * 6) * 20 + Cos4(t * 17) * 15

\* idleWind = sin(time * 0.0006) * 0.02 + cos(time * 0.0017) * 0.015, millionths
IdleWind(t) == Sin4(t * 6) * 2 + RoundDiv(Cos4(t * 17) * 3, 2)

\* mutant: no deadzone (lines 243-245 left out)
ActiveTarget_NoDeadzone(swayValue) == swayValue

\* the deadzone: |swayValue| < MOTION_DEADZONE counts as 0
ActiveTarget(swayValue) ==
    IF Abs(swayValue) < MOTION_DEADZONE THEN 0 ELSE swayValue

\* mutant: the damping `velocity *= d` left out
SpringSway_Undamped(phys, swayValue, t) ==
    LET targetAngle == RoundDiv(ActiveTarget(swayValue) * 6, 10) + IdleWind(t)
        force == RoundDiv((targetAngle - phys.angle) * 8, 1000)
        velocity == phys.velocity + force
    IN  [angle |-> phys.angle + velocity, velocity |-> velocity]

\* one step of the damped spring: k = 0.008, d = 0.95
SpringSway(phys, swayValue, t) ==
    LET targetAngle == RoundDiv(ActiveTarget(swayValue) * 6, 10) + IdleWind(t)
        force == RoundDiv((targetAngle - phys.angle) * 8, 1000)
        velocity == RoundDiv((phys.velocity + force) * 95, 100)
    IN  [angle |-> phys.angle + velocity, velocity |-> velocity]

---------------------------------------------------------------------------
(* render: Happy Count Logic (lines 264-287)                                *)

\* mutant: the recorded extreme is not cleared when the event fires, the side
\* entered is recorded instead
EnterZone_KeepsExtreme(side, opposite, extreme) ==
    IF extreme = opposite
    THEN [zone |-> side, extreme |-> side, fired |-> TRUE]
    ELSE [zone |-> side, extreme |-> side, fired |-> FALSE]

\* mutant: any recorded extreme fires, not only the opposite one
EnterZone_FiresOnSameSide(side, opposite, extreme) ==
    IF extreme # "NONE"
    THEN [zone |-> side, extreme |-> "NONE", fired |-> TRUE]
    ELSE [zone |-> side, extreme |-> side, fired |-> FALSE]

\* entering the zone `side` coming from another zone: fire when the recorded
\* extreme is the opposite side, record the side otherwise
EnterZone(side, opposite, extreme) ==
    IF extreme = opposite
    THEN [zone |-> side, extreme |-> "NONE", fired |-> TRUE]
    ELSE [zone |-> side, extreme |-> side, fired |-> FALSE]

\* mutant: the zone is reset to CENTER as soon as the angle is inside the
\* side thresholds, with no separate center threshold
HappyCount_NoHysteresis(zone, extreme, currentSway) ==
    IF currentSway < -SWAY_COUNT_THRESHOLD
    THEN IF zone # "LEFT" THEN EnterZone("LEFT", "RIGHT", extreme)
         ELSE [zone |-> zone, extreme |-> extreme, fired |-> FALSE]
    ELSE IF currentSway > SWAY_COUNT_THRESHOLD
    THEN IF zone # "RIGHT" THEN EnterZone("RIGHT", "LEFT", extreme)
         ELSE [zone |-> zone, extreme |-> extreme, fired |-> FALSE]
    ELSE [zone |-> "CENTER", extreme |-> extreme, fired |-> FALSE]

\* the gesture detector on one smoothed angle; "NONE" is null
HappyCount(zone, extreme, currentSway) ==
    IF currentSway < -SWAY_COUNT_THRESHOLD
    THEN IF zone # "LEFT" THEN EnterZone("LEFT", "RIGHT", extreme)
         ELSE [zone |-> zone, extreme |-> extreme, fired |-> FALSE]
    ELSE IF currentSway > SWAY_COUNT_THRESHOLD
    THEN IF zone # "RIGHT" THEN EnterZone("RIGHT", "LEFT", extreme)
         ELSE [zone |-> zone, extreme |-> extreme, fired |-> FALSE]
    ELSE IF Abs(currentSway) < CENTER_THRESHOLD
    THEN [zone |-> "CENTER", extreme |-> extreme, fired |-> FALSE]
    ELSE [zone |-> zone, extreme |-> extreme, fired |-> FALSE]

---------------------------------------------------------------------------
(* render: Blow Detection (lines 289-328)                                   *)

\* mutant: >= instead of >
BlowDetected_Inclusive(gameState, blowStrength) ==
    gameState = "IDLE" /\ blowStrength >= BLOW_THRESHOLD

\* mutant: the test of the dispersal state left out
BlowDetected_AnyState(gameState, blowStrength) ==
    blowStrength > BLOW_THRESHOLD

\* the test of line 290
BlowDetected(gameState, blowStrength) ==
    gameState = "IDLE" /\ blowStrength > BLOW_THRESHOLD

\* mutant: the assignment of line 291 left out
GameStateAfterBlow_Unassigned(gameState, blown) == gameState

\* gameStateRef.current after the blow test (line 291)
GameStateAfterBlow(gameState, blown) ==
    IF blown THEN "BLOWN" ELSE gameState

\* the dispersal impulse of one seed (lines 298-309)
Disperse(p, blowStrength, draw) ==
    LET radialX == RoundDiv(p.origX * 10, SPHERE_RADIUS)
        radialY == RoundDiv(p.origY * 10, SPHERE_RADIUS)
        radialZ == RoundDiv(p.origZ * 10, SPHERE_RADIUS)
        windX == 8 * blowStrength
        windY == -2 * blowStrength
    IN  [p EXCEPT !.isAttached = FALSE,
                  !.vx = RoundDiv(radialX * draw.force, 20000) + windX + draw.jx,
                  !.vy = RoundDiv(radialY * draw.force, 20000) + windY + draw.jy,
                  !.vz = RoundDiv(radialZ * draw.force, 20000) + draw.jz]

\* mutant: the reset forgets the velocity and the alpha
RegrowReset_PositionOnly(p) ==
    [p EXCEPT !.x = p.origX, !.y = p.origY, !.z = p.origZ,
              !.isAttached = TRUE]

\* mutant: the reset forgets to reattach the seed
RegrowReset_StaysDetached(p) ==
    [p EXCEPT !.x = p.origX, !.y = p.origY, !.z = p.origZ,
              !.vx = 0, !.vy = 0, !.vz = 0, !.alpha = 0]

\* the reset of one seed in the REGROW_TIME callback (lines 317-320)
RegrowReset(p) ==
    [p EXCEPT !.x = p.origX, !.y = p.origY, !.z = p.origZ,
              !.vx = 0, !.vy = 0, !.vz = 0,
              !.isAttached = TRUE, !.alpha = 0]

\* triggerSparkles on one sparkle (lines 181-198) with its Math.random()
\* draws; of the position only the depth z is modelled; z and vz in 1e-3 px,
\* maxLife in thousandths of a frame
TriggerSparkle(s, draw, strength) ==
    LET speed == 4000 + RoundDiv(draw.speed * 12 * strength, 1000)
    IN  [s EXCEPT !.z = (draw.z - 500) * SPHERE_RADIUS,
                  !.vz = RoundDiv((draw.vz - 500) * speed * 2, 1000),
                  !.life = 100,
                  !.maxLife = 50000 + draw.maxLife * 100,
                  !.alpha = 1000]

---------------------------------------------------------------------------
(* render: Draw Sparkles (lines 421-442)                                    *)

\* the move and the ageing of one sparkle (lines 422-431)
UpdateSparkle(s) ==
    IF s.life > 0
    THEN [s EXCEPT !.z = s.z + s.vz,
                   !.vz = RoundDiv(s.vz * 94, 100),
                   !.life = s.life - 1]
    ELSE s

\* alpha = (s.life / s.maxLife) * s.alpha of line 436, in thousandths
SparkleOpacity(s) == RoundDiv(s.life * s.alpha * 1000, s.maxLife)

\* the opacity the frame fills the sparkle with, -1 when it draws nothing:
\* `was` is the sparkle before the move, `s` after it (lines 422, 433-434);
\* sScale = 500 / (500 + s.z) is Infinity when the sum is zero
SparkleFill(was, s) ==
    IF was.life > 0 /\ 500000 + s.z >= 0 THEN SparkleOpacity(s) ELSE -1

---------------------------------------------------------------------------
(* render: Draw Dandelion Seeds (lines 444-492)                             *)

\* rotate(x, y) of lines 366-369 with cosR, sinR in 1e-4
Rotate(x, y, cosR, sinR) ==
    [x |-> MulDiv(x, cosR, 10000) - MulDiv(y, sinR, 10000),
     y |-> MulDiv(x, sinR, 10000) + MulDiv(y, cosR, 10000)]

\* the head of the stem (lines 331-336), thousandths of a pixel
HeadPosition(canvas, currentSway) ==
    LET a == RoundDiv(currentSway, 100)
        stemLength == canvas.height * 50
    IN  [x |-> canvas.width * 500 + RoundDiv(Sin4(a) * stemLength, 1000),
         y |-> canvas.height * 1000 - RoundDiv(Cos4(a) * stemLength, 1000)]

\* displayScale in tenths (lines 228-230)
\* the centre passed to triggerSparkles (line 295, with centerX and centerY
\* of lines 238-239), in thousandths of a pixel
SparkleCentre(canvas, currentSway) ==
    LET a == RoundDiv(currentSway, 100)
    IN  [x |-> canvas.width * 500 + RoundDiv(Sin4(a) * 200, 10),
         y |-> canvas.height * 500 + 50000 - RoundDiv(Cos4(a) * 200, 10)]

DisplayScale(canvas) == IF canvas.width < 768 THEN 8 ELSE 10

\* breath = sin(time * 0.0015) * 5 * activityFactor (lines 449-455)
Breath(currentSway, blowStrength, t) ==
    LET activityFactor ==
            Min(1000, RoundDiv(Abs(currentSway) * 3, 1000) + blowStrength * 2)
    IN  RoundDiv(Sin4(t * 15) * 5 * activityFactor, 10000)

\* a detached seed: integrate, drag, gravity, fade (lines 459-467)
FlyParticle(p) ==
    [p EXCEPT !.x = p.x + p.vx, !.y = p.y + p.vy, !.z = p.z + p.vz,
              !.vx = RoundDiv(p.vx * 99, 100),
              !.vy = RoundDiv(p.vy * 99, 100) + 10,
              !.vz = RoundDiv(p.vz * 99, 100),
              !.alpha = IF p.alpha - 1 < 0 THEN 0 ELSE p.alpha - 1]

\* mutant: the ramp without its cap (line 490 left out)
RegrowAlpha_Uncapped(alpha, gameState) ==
    IF gameState = "REGROWING" THEN alpha + 10 ELSE alpha

\* the alpha of an attached seed (lines 488-491)
RegrowAlpha(alpha, gameState) ==
    IF gameState = "REGROWING"
    THEN (IF alpha + 10 > 1000 THEN 1000 ELSE alpha + 10)
    ELSE alpha

\* an attached seed follows the head (lines 470-491)
HoldParticle(p, gameState, canvas, currentSway, breath) ==
    LET ds == DisplayScale(canvas)
        a == RoundDiv(currentSway, 100)
        cosR == Cos4(a)
        sinR == Sin4(a)
        head == HeadPosition(canvas, currentSway)
        scaledOrigX == RoundDiv(p.origX * ds, 10)
        scaledOrigY == RoundDiv(p.origY * ds, 10)
        scaledOrigZ == RoundDiv(p.origZ * ds, 10)
        rot == Rotate(scaledOrigX, scaledOrigY, cosR, sinR)
        cx == RoundDiv(scaledOrigX, 10)
        cy == RoundDiv(scaledOrigY, 10)
        dist == 10 * ISqrt(cx * cx + cy * cy)
        normX == RoundDiv(p.origX * 10000, dist)
        normY == RoundDiv(p.origY * 10000, dist)
        rotBreath == Rotate(RoundDiv(normX * breath, 10000),
                            RoundDiv(normY * breath, 10000), cosR, sinR)
    IN  [p EXCEPT !.x = head.x + rot.x + rotBreath.x,
                  !.y = head.y + rot.y + rotBreath.y,
                  !.z = scaledOrigZ,
                  !.alpha = RegrowAlpha(p.alpha, gameState)]

UpdateParticle(p, gameState, canvas, currentSway, breath) ==
    IF ~p.isAttached THEN FlyParticle(p)
    ELSE HoldParticle(p, gameState, canvas, currentSway, breath)

RECURSIVE Insert(_, _)
\* p inserted into a sequence sorted by z descending, after its equals
Insert(ps, p) ==
    IF ps = <<>> THEN <<p>>
    ELSE IF Head(ps).z >= p.z THEN <<Head(ps)>> \o Insert(Tail(ps), p)
    ELSE <<p>> \o ps

RECURSIVE SortByZ(_)
\* particlesRef.current.sort((a, b) => b.z - a.z) (line 447): stable, back to front
SortByZ(ps) ==
    IF ps = <<>> THEN <<>>
    ELSE Insert(SortByZ(SubSeq(ps, 1, Len(ps) - 1)), ps[Len(ps)])

---------------------------------------------------------------------------
(* State                                                                    *)

VARIABLES
    gameStateRef,    \* gameStateRef.current
    particlesRef,    \* particlesRef.current, in array order
    sparklesRef,     \* sparklesRef.current
    swayPhysics,     \* swayPhysics.current: [angle, velocity]
    swayStateRef,    \* swayStateRef.current: "CENTER", "LEFT", "RIGHT"
    lastExtremeRef,  \* lastExtremeRef.current: "LEFT", "RIGHT", "NONE" (null)
    propsRef,        \* propsRef.current: [swayValue, blowStrength, colorTheme,
                     \* handlers], handlers numbering the callback closures
    canvas,          \* [width, height] of the canvas element
    animationRef,    \* animationRef.current: the id of a frame request
    pendingFrames,   \* the ids of the requestAnimationFrame(render) calls
                     \* that have neither run nor been cancelled
    mounted,         \* FALSE once the effect cleanup has run
    timers,          \* the pending setTimeout calls [callback, delay, due],
                     \* in scheduling order
    time,            \* the timestamp of the last frame (ms)
    frameDt,         \* ms between frames of this display
    calls,           \* how often each callback / helper has been invoked
    frames,          \* frames rendered so far
    lastCallback,    \* the last render or timer callback and what it saw
    lastProps,       \* the props the last frame destructured (line 233)
    swayLog,         \* what the smoothed angle has done so far
    app              \* App: hasStarted and error (lines 9-11), the calls of
                     \* startExperience in flight, the clicks on the start
                     \* button, the initialize() calls that failed, the
                     \* sensor loops started and the samples they took,
                     \* whether DandelionCanvas is in the rendered tree,
                     \* loopRef.current, the sensor loops with a frame
                     \* request pending, whether App has been torn down

vars == <<gameStateRef, particlesRef, sparklesRef, swayPhysics, swayStateRef,
          lastExtremeRef, propsRef, canvas, animationRef, pendingFrames,
          mounted, timers, time, frameDt, calls, frames, lastCallback,
          lastProps, swayLog, app>>

NoCalls == [onStateChange |-> 0, stateArg |-> "NONE", onBlowSuccess |-> 0,
            onHappySway |-> 0, triggerSparkles |-> 0, setTimeout |-> 0,
            sparklesAt |-> [x |-> 0, y |-> 0],
            sparkleFill |-> [i \in 1..SPARKLE_COUNT |-> -1]]

\* the props of the first render: the sensor values App starts with (lines
\* 38-39), the colour it starts with (line 19), the first callback closures
FirstProps ==
    [swayValue |-> 0, blowStrength |-> 0, colorTheme |-> "white", handlers |-> 0]

\* App once startExperience has succeeded: the canvas is on screen and the
\* sensor loop runs
Started ==
    [hasStarted |-> TRUE, error |-> FALSE, starts |-> <<>>, clicks |-> 1,
     failures |-> 0, loops |-> 1, samples |-> 0, canvas |-> "mounted",
     loopRef |-> 1, loopPending |-> {1}, tornDown |-> FALSE]

\* line 587 without its assignment: the id of the new request is dropped
StoreRequest_Dropped(id, current) == current

\* animationRef.current = requestAnimationFrame(render) (lines 587, 222)
StoreRequest(id, current) == id

\* the component after its first render and its effects: refs at their
\* initial values, the pools filled, the canvas sized, the first frame
\* requested at timestamp t0
Mounted(alphas, size, t0, dt) ==
    /\ gameStateRef = "IDLE"
    /\ particlesRef = initParticles(alphas)
    /\ sparklesRef = initSparkles
    /\ swayPhysics = [angle |-> 0, velocity |-> 0]
    /\ swayStateRef = "CENTER"
    /\ lastExtremeRef = "NONE"
    /\ propsRef = FirstProps
    /\ canvas = [width |-> size[1], height |-> size[2]]
    /\ animationRef = 1
    /\ pendingFrames = {1}
    /\ mounted = TRUE
    /\ timers = <<>>
    /\ time = t0
    /\ frameDt = dt
    /\ calls = NoCalls
    /\ frames = 0
    /\ lastCallback = [op |-> "none", gameState |-> "IDLE", blowStrength |-> 0]
    /\ lastProps = FirstProps
    /\ swayLog = [entered |-> <<>>, below |-> FALSE, above |-> FALSE]
    /\ app = Started

Init ==
    \E alphas \in DrawVectors(AlphaDraws, PARTICLE_COUNT), size \in WindowSizes,
       dt \in FrameDts : Mounted(alphas, size, 0, dt)

---------------------------------------------------------------------------
(* Actions                                                                  *)

\* the host re-renders with new sensor values; the effect of lines 108-110
\* stores the props in propsRef
Publish(props) ==
    /\ mounted
    /\ propsRef' = props
    /\ propsRef' # propsRef
    /\ UNCHANGED <<gameStateRef, particlesRef, sparklesRef, swayPhysics,
                   swayStateRef, lastExtremeRef, canvas, animationRef,
                   pendingFrames, mounted, timers, time, frameDt, calls,
                   frames, lastCallback, lastProps, swayLog, app>>

\* the record of the smoothed angle: the side zones swayStateRef has entered,
\* and whether the angle has been below -threshold / above +threshold
Logged(log, zoneBefore, zoneAfter, currentSway) ==
    [entered |-> IF zoneAfter # zoneBefore /\ zoneAfter \in {"LEFT", "RIGHT"}
                 THEN Append(log.entered, zoneAfter) ELSE log.entered,
     below |-> log.below \/ currentSway < -SWAY_COUNT_THRESHOLD,
     above |-> log.above \/ currentSway > SWAY_COUNT_THRESHOLD]

\* one frame (lines 224-588) at timestamp t reading `props`, with `phys` the
\* spring after its step and the Math.random() draws of a dispersal
Frame(t, props, phys, draws, sparks) ==
    LET blowStrength == props.blowStrength
        currentSway == phys.angle
        happy == HappyCount(swayStateRef, lastExtremeRef, currentSway)
        blown == BlowDetected(gameStateRef, blowStrength)
        gameState == GameStateAfterBlow(gameStateRef, blown)
        burst == IF blown
                 THEN [i \in 1..SPARKLE_COUNT |->
                          TriggerSparkle(sparklesRef[i], sparks[i], blowStrength)]
                 ELSE sparklesRef
        blownParticles ==
            IF blown
            THEN [i \in 1..PARTICLE_COUNT |->
                     Disperse(particlesRef[i], blowStrength, draws[i])]
            ELSE particlesRef
        sorted == SortByZ(blownParticles)
        breath == Breath(currentSway, blowStrength, t)
    IN  /\ time' = t
        /\ propsRef' = props
        /\ swayPhysics' = phys
        /\ swayStateRef' = happy.zone
        /\ lastExtremeRef' = happy.extreme
        /\ gameStateRef' = gameState
        /\ timers' = IF blown
                     THEN Append(timers, [callback |-> "REGROW",
                                          delay |-> REGROW_TIME,
                                          due |-> t + REGROW_TIME])
                     ELSE timers
        /\ sparklesRef' = [i \in 1..SPARKLE_COUNT |-> UpdateSparkle(burst[i])]
        /\ particlesRef' =
               [i \in 1..PARTICLE_COUNT |->
                   UpdateParticle(sorted[i], gameState, canvas, currentSway, breath)]
        /\ calls' =
               [calls EXCEPT
                   !.onHappySway = @ + (IF happy.fired THEN 1 ELSE 0),
                   !.onStateChange = @ + (IF blown THEN 1 ELSE 0),
                   !.stateArg = IF blown THEN "BLOWN" ELSE @,
                   !.onBlowSuccess = @ + (IF blown THEN 1 ELSE 0),
                   !.triggerSparkles = @ + (IF blown THEN 1 ELSE 0),
                   !.sparklesAt = IF blown THEN SparkleCentre(canvas, currentSway)
                                  ELSE @,
                   !.sparkleFill =
                       [i \in 1..SPARKLE_COUNT |->
                           SparkleFill(burst[i], UpdateSparkle(burst[i]))],
                   !.setTimeout = @ + (IF blown THEN 1 ELSE 0)]
        /\ frames' = frames + 1
        /\ lastCallback' = [op |-> "render", gameState |-> gameStateRef,
                            blowStrength |-> blowStrength]
        /\ lastProps' = props
        /\ swayLog' = Logged(swayLog, swayStateRef, happy.zone, currentSway)
        /\ pendingFrames' = {frames + 2}
        /\ animationRef' = StoreRequest(frames + 2, animationRef)
        /\ UNCHANGED <<canvas, frameDt, mounted, app>>

\* the draws a frame consumes: Math.random() is only called by a dispersal
FrameDraws(S, n, blown) ==
    IF blown THEN DrawVectors(S, n) ELSE {[i \in 1..n |-> CHOOSE d \in S : TRUE]}

\* a frame on `props` whose spring step yields `phys`
FrameOn(props, phys) ==
    LET blown == BlowDetected(gameStateRef, props.blowStrength)
    IN  \E draws \in FrameDraws(ImpulseDraws, PARTICLE_COUNT, blown),
           sparks \in FrameDraws(MaxLifeDraws, SPARKLE_COUNT, blown) :
            Frame(time + frameDt, props, phys, draws, sparks)

\* mutant: the frame uses the props of the render that subscribed the loop
ReadProps_AtMount(current, first) == first

\* const {...} = propsRef.current (line 233)
ReadProps(current, first) == current

\* a frame at time + frameDt on what it reads from propsRef
RenderFrame ==
    LET props == ReadProps(propsRef, FirstProps)
    IN  FrameOn(props, SpringSway(swayPhysics, props.swayValue, time + frameDt))

\* render (lines 224-588): the pending animation frame runs and requests the next
render ==
    /\ pendingFrames # {}
    /\ frames < MaxFrames
    /\ RenderFrame

\* mutant: the draw test without its scale part
PassesDrawTest_AlphaOnly(p) == p.alpha > 50

\* the draw test of a seed after its update (lines 494-497): alpha > 0.05 and
\* scale = 500 / (500 + z) > 0.1, where a zero denominator yields Infinity
\* (which is > 0.1) and a negative one a negative scale
PassesDrawTest(p) ==
    LET denominator == 500000 + p.z
    IN  /\ p.alpha > 50
        /\ \/ denominator = 0
           \/ denominator > 0 /\ 500000 * 10 > denominator

\* timers without their i-th element
Without(seq, i) == SubSeq(seq, 1, i - 1) \o SubSeq(seq, i + 1, Len(seq))

\* the REGROW_TIME callback (lines 312-327).  A pending timeout may run after
\* any number of frames: the number of frames rendered in REGROW_TIME ms
\* depends on the display, and none are rendered while the page is hidden.
regrowTimeout ==
    \E i \in 1..Len(timers) :
        /\ timers[i].callback = "REGROW"
        /\ gameStateRef' = "REGROWING"
        /\ particlesRef' = [k \in 1..PARTICLE_COUNT |-> RegrowReset(particlesRef[k])]
        /\ timers' = Append(Without(timers, i),
                             [callback |-> "IDLE", delay |-> IDLE_TIME,
                              due |-> timers[i].due + IDLE_TIME])
        /\ calls' = [calls EXCEPT !.onStateChange = @ + 1,
                                  !.stateArg = "REGROWING",
                                  !.setTimeout = @ + 1]
        /\ lastCallback' = [op |-> "regrow", gameState |-> gameStateRef,
                            blowStrength |-> 0]
        /\ UNCHANGED <<sparklesRef, swayPhysics, swayStateRef, lastExtremeRef,
                       propsRef, canvas, animationRef, pendingFrames, mounted,
                       time, frameDt, frames, lastProps, swayLog, app>>

\* the 2000 ms callback (lines 323-326)
idleTimeout ==
    \E i \in 1..Len(timers) :
        /\ timers[i].callback = "IDLE"
        /\ gameStateRef' = "IDLE"
        /\ timers' = Without(timers, i)
        /\ calls' = [calls EXCEPT !.onStateChange = @ + 1, !.stateArg = "IDLE"]
        /\ lastCallback' = [op |-> "idle", gameState |-> gameStateRef,
                            blowStrength |-> 0]
        /\ UNCHANGED <<particlesRef, sparklesRef, swayPhysics, swayStateRef,
                       lastExtremeRef, propsRef, canvas, animationRef,
                       pendingFrames, mounted, time, frameDt, frames,
                       lastProps, swayLog, app>>

\* the effect cleanup (lines 592-595): cancelAnimationFrame on the id in
\* animationRef.current (never 0: ids start at 1); pending timeouts are left
\* alone
cleanup ==
    /\ mounted
    /\ mounted' = FALSE
    /\ pendingFrames' = pendingFrames \ {animationRef}
    /\ UNCHANGED <<gameStateRef, particlesRef, sparklesRef, swayPhysics,
                   swayStateRef, lastExtremeRef, propsRef, canvas,
                   animationRef, timers, time, frameDt, calls, frames,
                   lastCallback, lastProps, swayLog, app>>

\* the sensor loop of App sets swayValue and blowStrength
SetProps(swayValue, blowStrength) ==
    Publish([propsRef EXCEPT !.swayValue = swayValue,
                             !.blowStrength = blowStrength])

publish == \E sv \in SwayValues, bs \in BlowValues : SetProps(sv, bs)

Next == publish \/ render \/ regrowTimeout \/ idleTimeout \/ cleanup

Spec == Init /\ [][Next]_vars

---------------------------------------------------------------------------
(* The gesture detector on arbitrary smoothed angles                        *)

\* a frame whose spring step leaves the smoothed angle at a
gestureFrame ==
    /\ pendingFrames # {}
    /\ frames < MaxAngles
    /\ \E a \in SmoothedAngles :
           FrameOn(propsRef, [angle |-> a, velocity |-> a - swayPhysics.angle])

GestureInit ==
    \E size \in WindowSizes :
        Mounted([i \in 1..PARTICLE_COUNT |-> 990], size, 0, 16)

GestureSpec == GestureInit /\ [][gestureFrame]_vars

---------------------------------------------------------------------------
(* End-to-end scenario 2: swayValue -0.5, +0.5, -0.5 for PhaseFrames each   *)

\* the swayValue the host has published when frame number f (0-based) runs
ScenarioSway(f) ==
    IF f < PhaseFrames THEN -500000
    ELSE IF f < 2 * PhaseFrames THEN 500000
    ELSE -500000

scenarioFrame ==
    /\ pendingFrames # {}
    /\ frames < 3 * PhaseFrames
    /\ LET sv == ScenarioSway(frames)
       IN  FrameOn([propsRef EXCEPT !.swayValue = sv, !.blowStrength = 0],
                   SpringSway(swayPhysics, sv, time + frameDt))

ScenarioInit ==
    \E t0 \in StartTimes, dt \in FrameDts :
        Mounted([i \in 1..PARTICLE_COUNT |-> 990], <<1280, 720>>, t0, dt)

ScenarioSpec == ScenarioInit /\ [][scenarioFrame]_vars

---------------------------------------------------------------------------
(* One dispersal cycle on the clock: the timeouts run when they are due     *)

\* the ms between frames of a 120 Hz, a 60 Hz and a 30 Hz display
ClockDts == {8, 16, 33}

\* the blowStrength the host has published when frame number f (0-based)
\* runs: one puff of 30 frames into the microphone
ClockBlow(f) == IF f < 30 THEN 900 ELSE 0

\* a timeout is due before the next frame
TimerDue(callback) ==
    \E i \in 1..Len(timers) :
        timers[i].callback = callback /\ timers[i].due <= time + frameDt

\* a frame runs at time + frameDt unless a timeout is due first
clockFrame ==
    /\ pendingFrames # {}
    /\ frames < MaxClockFrames
    /\ ~TimerDue("REGROW") /\ ~TimerDue("IDLE")
    /\ FrameOn([propsRef EXCEPT !.blowStrength = ClockBlow(frames)],
               SpringSway(swayPhysics, propsRef.swayValue, time + frameDt))

clockRegrow == TimerDue("REGROW") /\ regrowTimeout

clockIdle == TimerDue("IDLE") /\ idleTimeout

ClockInit ==
    \E alphas \in DrawVectors(AlphaDraws, PARTICLE_COUNT), dt \in ClockDts :
        Mounted(alphas, <<1280, 720>>, 0, dt)

ClockNext == clockFrame \/ clockRegrow \/ clockIdle

ClockSpec == ClockInit /\ [][ClockNext]_vars

---------------------------------------------------------------------------
(* The host changes every prop between frames                               *)

\* two of the colour themes: the first one and the one cycleColor selects next
ColorThemes == {"white", "deepBlue"}

\* the callback closures of two renders of App
HandlerIds == {0, 1}

publishAll ==
    \E sv \in SwayValues \cup {0}, bs \in BlowValues, c \in ColorThemes,
       h \in HandlerIds :
        Publish([swayValue |-> sv, blowStrength |-> bs, colorTheme |-> c,
                 handlers |-> h])

propsFrame ==
    /\ pendingFrames # {}
    /\ frames < MaxPropFrames
    /\ RenderFrame

PropsInit == Mounted([i \in 1..PARTICLE_COUNT |-> 990], <<1280, 720>>, 0, 16)

PropsNext == publishAll \/ propsFrame

PropsSpec == PropsInit /\ [][PropsNext]_vars

---------------------------------------------------------------------------
(* App: the start screen, startExperience and the sensor loop               *)

\* everything but app: the state of the canvas component
canvasVars == <<gameStateRef, particlesRef, sparklesRef, swayPhysics,
                swayStateRef, lastExtremeRef, propsRef, canvas, animationRef,
                pendingFrames, mounted, timers, time, frameDt, calls, frames,
                lastCallback, lastProps, swayLog>>

\* App after its first render: the start screen is shown, DandelionCanvas has
\* never been rendered, so its refs do not exist yet
AppInit ==
    /\ app = [hasStarted |-> FALSE, error |-> FALSE, starts |-> <<>>,
              clicks |-> 0, failures |-> 0, loops |-> 0, samples |-> 0,
              canvas |-> "none", loopRef |-> 0, loopPending |-> {},
              tornDown |-> FALSE]
    /\ gameStateRef = "IDLE"
    /\ particlesRef = <<>>
    /\ sparklesRef = <<>>
    /\ swayPhysics = [angle |-> 0, velocity |-> 0]
    /\ swayStateRef = "CENTER"
    /\ lastExtremeRef = "NONE"
    /\ propsRef = FirstProps
    /\ canvas = [width |-> 0, height |-> 0]
    /\ animationRef = 0
    /\ pendingFrames = {}
    /\ mounted = FALSE
    /\ timers = <<>>
    /\ time = 0
    /\ frameDt = 16
    /\ calls = NoCalls
    /\ frames = 0
    /\ lastCallback = [op |-> "none", gameState |-> "IDLE", blowStrength |-> 0]
    /\ lastProps = FirstProps
    /\ swayLog = [entered |-> <<>>, below |-> FALSE, above |-> FALSE]

\* what App renders: the error screen (line 93) comes before the start screen
\* (line 105), DandelionCanvas is rendered only past both gates
Rendered(hasStarted, error, before) ==
    IF hasStarted /\ ~error THEN "mounted"
    ELSE IF before = "mounted" THEN "unmounted"
    ELSE before

\* a click on the start button (line 141), which the start screen shows as
\* long as neither gate has changed: startExperience runs up to its await
clickStart ==
    /\ ~app.tornDown
    /\ ~app.error /\ ~app.hasStarted
    /\ app.clicks < MaxClicks
    /\ app' = [app EXCEPT !.clicks = @ + 1,
                          !.starts = Append(@, [audio |-> "pending",
                                                motion |-> "pending"])]
    /\ UNCHANGED canvasVars

\* audioService.initialize() of a call in flight resolves or rejects
audioSettles ==
    \E i \in 1..Len(app.starts), outcome \in {"resolved", "rejected"} :
        /\ app.starts[i].audio = "pending"
        /\ app' = [app EXCEPT !.starts[i].audio = outcome,
                              !.failures = @ + (IF outcome = "rejected"
                                                THEN 1 ELSE 0)]
        /\ UNCHANGED canvasVars

\* motionService.initialize() of a call in flight resolves or rejects
motionSettles ==
    \E i \in 1..Len(app.starts), outcome \in {"resolved", "rejected"} :
        /\ app.starts[i].motion = "pending"
        /\ app' = [app EXCEPT !.starts[i].motion = outcome,
                              !.failures = @ + (IF outcome = "rejected"
                                                THEN 1 ELSE 0)]
        /\ UNCHANGED canvasVars

\* Promise.all has resolved: lines 51-53.  startSensorLoop requests the first
\* round of a new loop and stores the request in loopRef (line 78); the state
\* setters do nothing once App is torn down
startSucceeds ==
    \E i \in 1..Len(app.starts) :
        /\ app.starts[i].audio = "resolved" /\ app.starts[i].motion = "resolved"
        /\ app' = [app EXCEPT !.starts = Without(@, i),
                              !.hasStarted = IF app.tornDown THEN @ ELSE TRUE,
                              !.loops = @ + 1,
                              !.loopRef = app.loops + 1,
                              !.loopPending = @ \cup {app.loops + 1},
                              !.canvas = IF app.tornDown THEN @
                                         ELSE Rendered(TRUE, app.error, @)]
        /\ UNCHANGED canvasVars

\* Promise.all has rejected, which it does with the first rejection: lines 54-56
startFails ==
    \E i \in 1..Len(app.starts) :
        /\ app.starts[i].audio = "rejected" \/ app.starts[i].motion = "rejected"
        /\ app' = [app EXCEPT !.starts = Without(@, i),
                              !.error = IF app.tornDown THEN @ ELSE TRUE,
                              !.canvas = IF app.tornDown THEN @
                                         ELSE Rendered(app.hasStarted, TRUE, @)]
        /\ UNCHANGED canvasVars

\* one round of a sensor loop (lines 61-77): it samples, sets state and
\* requests its next round
sensorLoop ==
    \E c \in app.loopPending :
        /\ app.samples < MaxSamples
        /\ app' = [app EXCEPT !.samples = @ + 1, !.loopRef = c]
        /\ UNCHANGED canvasVars

\* App is torn down (lines 81-87): the request in loopRef.current is cancelled
appCleanup ==
    /\ ~app.tornDown
    /\ app' = [app EXCEPT !.tornDown = TRUE,
                          !.loopPending = @ \ {app.loopRef},
                          !.canvas = IF @ = "mounted" THEN "unmounted" ELSE @]
    /\ UNCHANGED canvasVars

AppNext ==
    clickStart \/ audioSettles \/ motionSettles \/ startSucceeds \/ startFails
    \/ sensorLoop \/ appCleanup

AppSpec == AppInit /\ [][AppNext]_vars

---------------------------------------------------------------------------
(* Ambient drift: swayValue stays inside the deadzone                       *)

\* swayValues inside the deadzone (millionths): none, a small motion to the
\* right, the largest motion to the left that the deadzone swallows
DeadzoneSways == {0, 100000, -149999}

\* the host publishes one of DeadzoneSways before the first frame and keeps it
driftFrame ==
    /\ pendingFrames # {}
    /\ frames < MaxDriftFrames
    /\ \E sv \in (IF frames = 0 THEN DeadzoneSways ELSE {propsRef.swayValue}) :
           FrameOn([propsRef EXCEPT !.swayValue = sv],
                   SpringSway(swayPhysics, sv, time + frameDt))

DriftInit ==
    \E t0 \in StartTimes, dt \in FrameDts :
        Mounted([i \in 1..PARTICLE_COUNT |-> 990], <<1280, 720>>, t0, dt)

DriftSpec == DriftInit /\ [][driftFrame]_vars

---------------------------------------------------------------------------
(* The dispersal cycle with timeouts that fire                              *)

liveRender ==
    /\ pendingFrames # {}
    /\ frames < MaxLiveFrames
    /\ RenderFrame

LiveNext == publish \/ liveRender \/ regrowTimeout \/ idleTimeout \/ cleanup

\* a scheduled setTimeout callback runs eventually
LiveSpec ==
    /\ Init
    /\ [][LiveNext]_vars
    /\ WF_vars(regrowTimeout)
    /\ WF_vars(idleTimeout)

---------------------------------------------------------------------------
(* Properties                                                               *)

\* a step that runs one frame
FrameStep == frames' = frames + 1 /\ lastCallback'.op = "render"

AllDetached(ps) == \A i \in 1..PARTICLE_COUNT : ~ps[i].isAttached

AllAttached(ps) == \A i \in 1..PARTICLE_COUNT : ps[i].isAttached

\* C1: a frame that starts in IDLE and reads a blowStrength above the
\* threshold ends in BLOWN with every seed detached; a frame that reads a
\* blowStrength at or below the threshold does not leave IDLE.
C1_BlowDisperses ==
    [][ (FrameStep /\ gameStateRef = "IDLE") =>
          IF lastCallback'.blowStrength > BLOW_THRESHOLD
          THEN gameStateRef' = "BLOWN" /\ AllDetached(particlesRef')
          ELSE gameStateRef' = "IDLE" ]_vars

C1_Witness ==
    /\ lastCallback = [op |-> "render", gameState |-> "IDLE", blowStrength |-> 900]
    /\ gameStateRef = "BLOWN"
    /\ AllDetached(particlesRef)

\* the seed of ps with the origin of p
SameSeed(ps, p) ==
    CHOOSE q \in {ps[i] : i \in 1..PARTICLE_COUNT} :
        q.origX = p.origX /\ q.origY = p.origY /\ q.origZ = p.origZ

\* C2: a frame that starts in BLOWN or REGROWING and reads a blowStrength
\* above the threshold calls neither onBlowSuccess nor onStateChange nor
\* triggerSparkles nor setTimeout, leaves the state and the pending timers as
\* they are, and gives no seed an impulse (no seed changes attachment, and the
\* horizontal and depth speeds of a seed do not grow).
C2_NoSecondDispersal ==
    [][ (FrameStep /\ gameStateRef \in {"BLOWN", "REGROWING"}
           /\ lastCallback'.blowStrength > BLOW_THRESHOLD) =>
          /\ calls'.onBlowSuccess = calls.onBlowSuccess
          /\ calls'.onStateChange = calls.onStateChange
          /\ calls'.triggerSparkles = calls.triggerSparkles
          /\ calls'.setTimeout = calls.setTimeout
          /\ gameStateRef' = gameStateRef
          /\ timers' = timers
          /\ \A i \in 1..PARTICLE_COUNT :
                LET p == particlesRef[i]
                    q == SameSeed(particlesRef', p)
                IN  /\ q.isAttached = p.isAttached
                    /\ Abs(q.vx) <= Abs(p.vx)
                    /\ Abs(q.vz) <= Abs(p.vz) ]_vars

C2_Witness ==
    /\ lastCallback = [op |-> "render", gameState |-> "REGROWING",
                       blowStrength |-> 900]
    /\ gameStateRef = "REGROWING"
    /\ calls.onBlowSuccess = 1

\* C3: every step calls onBlowSuccess exactly once if it takes the state from
\* IDLE to BLOWN, and not at all otherwise.
C3_OneSuccessPerDispersal ==
    [][ calls'.onBlowSuccess = calls.onBlowSuccess +
          (IF gameStateRef = "IDLE" /\ gameStateRef' = "BLOWN" THEN 1 ELSE 0) ]_vars

C3_Witness ==
    /\ calls.onBlowSuccess = 2
    /\ gameStateRef = "BLOWN"
    /\ calls.onStateChange = 4

\* the successor of a dispersal state in the cycle
CycleSuccessor(gameState) ==
    CASE gameState = "IDLE" -> "BLOWN"
      [] gameState = "BLOWN" -> "REGROWING"
      [] gameState = "REGROWING" -> "IDLE"

\* C4: whenever the dispersal state is assigned (each assignment is announced
\* by onStateChange) or changes, the new state is the successor of the old one
\* in the cycle IDLE -> BLOWN -> REGROWING -> IDLE.
C4_CycleOrder ==
    [][ (gameStateRef' # gameStateRef \/ calls'.onStateChange # calls.onStateChange)
          => gameStateRef' = CycleSuccessor(gameStateRef) ]_vars

C4_Witness ==
    /\ gameStateRef = "IDLE"
    /\ lastCallback = [op |-> "idle", gameState |-> "REGROWING", blowStrength |-> 0]
    /\ calls.onStateChange = 3
    /\ mounted

\* C5: the step from BLOWN to REGROWING leaves every seed at its origin, at
\* rest, attached and with alpha 0, whatever the published inputs are.
C5_RegrowResets ==
    [][ (gameStateRef = "BLOWN" /\ gameStateRef' = "REGROWING") =>
          \A i \in 1..PARTICLE_COUNT :
             LET p == particlesRef'[i]
             IN  /\ p.x = p.origX /\ p.y = p.origY /\ p.z = p.origZ
                 /\ p.vx = 0 /\ p.vy = 0 /\ p.vz = 0
                 /\ p.isAttached
                 /\ p.alpha = 0
                 /\ p.origX = particlesRef[i].origX
                 /\ p.origY = particlesRef[i].origY
                 /\ p.origZ = particlesRef[i].origZ ]_vars

\* the transition fired while a blow above the threshold was published and
\* after the seeds had flown for a frame
C5_Witness ==
    /\ lastCallback.op = "regrow"
    /\ gameStateRef = "REGROWING"
    /\ propsRef.blowStrength > BLOW_THRESHOLD
    /\ frames >= 2
    /\ \A i \in 1..PARTICLE_COUNT :
          particlesRef[i].alpha = 0 /\ particlesRef[i].x = particlesRef[i].origX

\* C6: between callbacks, every seed is detached when the state is BLOWN and
\* every seed is attached when the state is IDLE or REGROWING.
C6_LockstepAttachment ==
    /\ gameStateRef = "BLOWN" => AllDetached(particlesRef)
    /\ gameStateRef \in {"IDLE", "REGROWING"} => AllAttached(particlesRef)

C6_Witness ==
    /\ gameStateRef = "BLOWN"
    /\ AllDetached(particlesRef)
    /\ calls.onBlowSuccess = 2
    /\ lastCallback.blowStrength = 750

\* the first position of `entered` whose side differs from the first side
\* entered, 0 if there is none
FirstOpposite(entered) ==
    IF \E i \in 1..Len(entered) : entered[i] # entered[1]
    THEN CHOOSE i \in 1..Len(entered) :
            /\ entered[i] # entered[1]
            /\ \A j \in 1..(i - 1) : entered[j] = entered[1]
    ELSE 0

\* C7: from the initial gesture state, onHappySway has not been called before
\* swayStateRef enters the side opposite to the first side it entered; once it
\* has, and until the next zone entry, onHappySway has been called exactly
\* once and lastExtremeRef is null.
C7_OneSwingOneEvent ==
    LET entered == swayLog.entered
        k == FirstOpposite(entered)
    IN  /\ k = 0 => calls.onHappySway = 0
        /\ (k # 0 /\ k = Len(entered)) =>
              calls.onHappySway = 1 /\ lastExtremeRef = "NONE"

C7_Witness ==
    /\ swayLog.entered = <<"LEFT", "LEFT", "RIGHT">>
    /\ calls.onHappySway = 1
    /\ lastExtremeRef = "NONE"
    /\ swayStateRef = "RIGHT"

\* C8: while swayStateRef is RIGHT, a frame whose smoothed angle stays at or
\* above the center threshold (0.1) calls no onHappySway and leaves
\* swayStateRef and lastExtremeRef as they are; the same for LEFT and angles at
\* or below -0.1.
C8_NoRefireWithoutCenter ==
    [][ (FrameStep /\
           \/ swayStateRef = "RIGHT" /\ swayPhysics'.angle >= CENTER_THRESHOLD
           \/ swayStateRef = "LEFT" /\ swayPhysics'.angle <= -CENTER_THRESHOLD) =>
          /\ calls'.onHappySway = calls.onHappySway
          /\ swayStateRef' = swayStateRef
          /\ lastExtremeRef' = lastExtremeRef ]_vars

\* the angle has dipped under +threshold after a crossing, the zone is held
C8_Witness ==
    /\ swayLog.entered = <<"RIGHT">>
    /\ swayStateRef = "RIGHT"
    /\ lastExtremeRef = "RIGHT"
    /\ swayPhysics.angle = 100000
    /\ frames >= 3
    /\ calls.onHappySway = 0

\* C9: as long as the smoothed angle has not been both above +threshold and
\* below -threshold, onHappySway has not been called, however often the angle
\* has crossed one threshold and returned to the center.
C9_SameSideNeverFires ==
    ~(swayLog.below /\ swayLog.above) => calls.onHappySway = 0

C9_Witness ==
    /\ swayLog.entered = <<"RIGHT", "RIGHT", "RIGHT">>
    /\ ~swayLog.below
    /\ calls.onHappySway = 0

\* C10: after the 3 * PhaseFrames frames of the scenario (swayValue -0.5,
\* +0.5, -0.5 from a fresh flower) onHappySway has been called exactly once.
C10_ScenarioFiresOnce ==
    frames = 3 * PhaseFrames => calls.onHappySway = 1

C10_Witness ==
    /\ frames = 3 * PhaseFrames
    /\ calls.onHappySway = 1
    /\ swayLog.below /\ swayLog.above

\* C11 as stated: in the scenario no onHappySway call is made during the first
\* two phases (the call is made during the third).
C11_NoEventBeforeThirdPhase ==
    frames <= 2 * PhaseFrames => calls.onHappySway = 0

\* C11: in the scenario the single onHappySway call is made during the second
\* phase, after the first sign reversal of swayValue: none has been made by
\* the end of the first phase, and from the end of the second phase on exactly
\* one has been made.
C11_EventInSecondPhase ==
    /\ frames <= PhaseFrames => calls.onHappySway = 0
    /\ frames >= 2 * PhaseFrames => calls.onHappySway = 1

\* the call has been made and the input has not reversed a second time
C11_Witness ==
    /\ frames > PhaseFrames
    /\ frames < 2 * PhaseFrames
    /\ calls.onHappySway = 1
    /\ swayLog.entered = <<"LEFT", "RIGHT">>
    /\ propsRef.swayValue = 500000

\* C12: once the effect cleanup has run, no step changes the dispersal state,
\* mutates a seed or calls onStateChange (pending timeouts are cancelled or
\* their callbacks do nothing).
C12_TimersDeadAfterCleanup ==
    [][ ~mounted =>
          /\ gameStateRef' = gameStateRef
          /\ particlesRef' = particlesRef
          /\ calls'.onStateChange = calls.onStateChange ]_vars

\* C13: the effect cleanup leaves no frame request pending, and once it has
\* run no frame runs and no frame is requested, whichever request was pending
\* when it ran.
C13_NoFrameAfterCleanup ==
    [][ /\ ~mounted' => pendingFrames' = {}
        /\ ~mounted => frames' = frames /\ lastCallback'.op # "render" ]_vars

\* the cleanup ran after three frames, so the cancelled request was the one
\* made by the third frame, and a timeout callback has run since
C13_Witness ==
    /\ ~mounted
    /\ frames = 3
    /\ animationRef = 4
    /\ pendingFrames = {}
    /\ lastCallback.op = "regrow"

\* C14: when the state is IDLE again after a dispersal and a regrowth (the
\* 2000 ms timeout has run), every seed has alpha 1.
C14_FullAlphaWhenIdleAgain ==
    (gameStateRef = "IDLE" /\ calls.onStateChange >= 3) =>
        \A i \in 1..PARTICLE_COUNT : particlesRef[i].alpha = 1000

\* C15: from one step to the next, the alpha of a seed that is detached after
\* the step has not grown and is at least 0; while the state stays REGROWING
\* the alpha of a seed does not shrink and is at most 1.
C15_AlphaMonotone ==
    [][ \A i \in 1..PARTICLE_COUNT :
           LET p == particlesRef[i]
               q == SameSeed(particlesRef', p)
           IN  /\ ~q.isAttached => q.alpha <= p.alpha /\ q.alpha >= 0
               /\ (gameStateRef = "REGROWING" /\ gameStateRef' = "REGROWING") =>
                     q.alpha >= p.alpha /\ q.alpha <= 1000 ]_vars

\* a seed has faded to 0 in flight and stays there
C15_Witness ==
    /\ gameStateRef = "BLOWN"
    /\ frames > 450
    /\ \E i \in 1..PARTICLE_COUNT :
          ~particlesRef[i].isAttached /\ particlesRef[i].alpha = 0

\* C16: every frame destructures the props published last before it runs:
\* swayValue, blowStrength, colorTheme and the callbacks.
C16_FrameReadsLatestProps ==
    [][ FrameStep => lastProps' = propsRef ]_vars

\* the second frame has read props that were published after the first frame
\* and differ from those of the mount in every field; its blow took effect
C16_Witness ==
    /\ frames = 2
    /\ lastCallback = [op |-> "render", gameState |-> "IDLE", blowStrength |-> 900]
    /\ lastProps = [swayValue |-> -500000, blowStrength |-> 900,
                    colorTheme |-> "deepBlue", handlers |-> 1]
    /\ gameStateRef = "BLOWN"

\* C17: a step calls onStateChange exactly once if it changes the dispersal
\* state, with the new state as argument, and not at all if it does not.
C17_OneEventPerChange ==
    [][ /\ calls'.onStateChange = calls.onStateChange +
              (IF gameStateRef' # gameStateRef THEN 1 ELSE 0)
        /\ gameStateRef' # gameStateRef => calls'.stateArg = gameStateRef' ]_vars

\* the second event of a cycle, after frames that changed nothing
C17_Witness ==
    /\ calls.onStateChange = 2
    /\ calls.stateArg = "REGROWING"
    /\ gameStateRef = "REGROWING"
    /\ lastCallback.op = "render"
    /\ frames = 4

\* C19: every attached seed has velocity 0.
C19_AttachedAtRest ==
    \A i \in 1..PARTICLE_COUNT :
        particlesRef[i].isAttached =>
            /\ particlesRef[i].vx = 0
            /\ particlesRef[i].vy = 0
            /\ particlesRef[i].vz = 0

\* seeds that have flown (and moved away from their origin) are attached and
\* at rest again, in the second cycle
C19_Witness ==
    /\ calls.onBlowSuccess = 2
    /\ gameStateRef = "REGROWING"
    /\ AllAttached(particlesRef)
    /\ \A i \in 1..PARTICLE_COUNT : particlesRef[i].vy = 0

\* C18: once a failed initialization has put App into its error state, no
\* sensor loop has been started and DandelionCanvas has never been rendered.
C18_NoCoreAfterFailure ==
    app.error => app.loops = 0 /\ app.canvas = "none"

\* C20 as stated: with swayValue inside the deadzone on every frame, the
\* smoothed angle never exceeds 0.02 + 0.015 = 0.035 in magnitude.
C20_DriftWithinWindAmplitude ==
    Abs(swayPhysics.angle) <= 20000 + 15000

\* C20: with swayValue inside the deadzone on every frame, the smoothed angle
\* never exceeds 0.08 in magnitude (it does exceed 0.035: the spring
\* overshoots the wind it follows).
C20_DriftBounded ==
    Abs(swayPhysics.angle) <= 80000

\* a swayValue the deadzone swallows, and an angle beyond the wind amplitude
C20_Witness ==
    /\ propsRef.swayValue = -149999
    /\ lastProps.swayValue = -149999
    /\ Abs(swayPhysics.angle) > 20000 + 15000
    /\ swayStateRef = "CENTER"

\* the distance of an origin from the centre of the sphere, in hundredths of a
\* pixel
Distance(o) ==
    LET cx == RoundDiv(o.x, 10)
        cy == RoundDiv(o.y, 10)
        cz == RoundDiv(o.z, 10)
    IN  ISqrt(cx * cx + cy * cy + cz * cz)

\* initParticles for every pool size n from 2 to MaxSeeds: each origin is
\* within 0.08 px of the sphere, origY is R * (1 - 2i/(n-1)) up to rounding,
\* +R for the first seed and -R for the last
SphereSweep ==
    \A n \in 2..MaxSeeds :
        /\ OriginOf(n, 0).y = SPHERE_RADIUS * 1000
        /\ OriginOf(n, n - 1).y = -SPHERE_RADIUS * 1000
        /\ \A i \in 0..(n - 1) :
              LET o == OriginOf(n, i)
              IN  /\ Abs(Distance(o) - SPHERE_RADIUS * 100) <= 8
                  /\ Abs(o.y - RoundDiv(SPHERE_RADIUS * 1000 * (n - 1 - 2 * i),
                                        n - 1)) <= 8

\* the origins initParticles gives the seeds of the store
Origins == {OriginOf(PARTICLE_COUNT, i) : i \in 0..(PARTICLE_COUNT - 1)}

\* C21: every origin initParticles produces lies on the sphere of radius
\* SPHERE_RADIUS with origY = R * (1 - 2i/(N-1)), for every pool size N from 2
\* to MaxSeeds, and the origins in the store are at all times those of
\* initParticles, one seed for each.
C21_OriginsOnSphere ==
    /\ SphereSweep
    /\ Len(particlesRef) = PARTICLE_COUNT
    /\ Cardinality(Origins) = PARTICLE_COUNT
    /\ {[x |-> particlesRef[k].origX, y |-> particlesRef[k].origY,
         z |-> particlesRef[k].origZ] : k \in 1..PARTICLE_COUNT} = Origins

\* the seeds have flown, have been reset and re-sorted: the store no longer
\* starts with the seed of the top of the sphere
C21_Witness ==
    /\ gameStateRef = "REGROWING"
    /\ calls.onBlowSuccess = 2
    /\ lastCallback.op = "render"
    /\ particlesRef[1].origY # SPHERE_RADIUS * 1000
    /\ \E k \in 1..PARTICLE_COUNT : particlesRef[k].origY = SPHERE_RADIUS * 1000

\* C22: a frame that calls triggerSparkles passes the head position of that
\* frame as the centre of the burst.
C22_BurstAtHead ==
    [][ calls'.triggerSparkles # calls.triggerSparkles =>
          calls'.sparklesAt = HeadPosition(canvas, swayPhysics'.angle) ]_vars

\* every zone entry so far was into the side opposite to the entry before
Alternating(entered) ==
    \A i \in 1..(Len(entered) - 1) : entered[i] # entered[i + 1]

\* C23: as long as the side zones have been entered alternately (from a fresh
\* gesture state), k zone entries have produced floor(k/2) onHappySway calls:
\* after an even number of entries lastExtremeRef is null, after an odd number
\* it is the side entered last.
C23_EverySecondEntryFires ==
    LET entered == swayLog.entered
        k == Len(entered)
    IN  Alternating(entered) =>
          /\ calls.onHappySway = k \div 2
          /\ lastExtremeRef = IF k % 2 = 0 THEN "NONE" ELSE entered[k]

C23_Witness ==
    /\ swayLog.entered = <<"RIGHT", "LEFT", "RIGHT", "LEFT", "RIGHT">>
    /\ calls.onHappySway = 2
    /\ lastExtremeRef = "RIGHT"

\* the timeouts pending in each dispersal state
TimersMatchState ==
    /\ Len(timers) <= 1
    /\ gameStateRef = "IDLE" => timers = <<>>
    /\ gameStateRef = "BLOWN" =>
          Len(timers) = 1 /\ timers[1].callback = "REGROW"
    /\ gameStateRef = "REGROWING" =>
          Len(timers) = 1 /\ timers[1].callback = "IDLE"

\* C24: at most one timeout is pending at any time: the REGROW_TIME timeout
\* exactly while the state is BLOWN, the 2000 ms timeout exactly while it is
\* REGROWING, none while it is IDLE; and if scheduled timeouts fire, every
\* dispersal is followed by a return to IDLE, whatever is published meanwhile.
C24_OneTimerAndReturn ==
    /\ []TimersMatchState
    /\ (gameStateRef = "BLOWN") ~> (gameStateRef = "IDLE")

\* the second timeout is pending while a blow above the threshold is published
\* and after a frame has read it in REGROWING
C24_Witness ==
    /\ gameStateRef = "REGROWING"
    /\ Len(timers) = 1
    /\ timers[1].callback = "IDLE"
    /\ lastCallback = [op |-> "render", gameState |-> "REGROWING",
                       blowStrength |-> 750]
    /\ propsRef.blowStrength = 900

C26_OneSensorLoop ==
    [][ /\ Cardinality(app'.loopPending) <= 1
        /\ app.tornDown => app'.samples = app.samples ]_vars

\* the life a sparkle has when a frame reaches the sparkle loop: 100 when the
\* frame has triggered a burst, the stored life otherwise
LifeAtDraw(i) ==
    IF calls'.triggerSparkles # calls.triggerSparkles THEN 100
    ELSE sparklesRef[i].life

\* C27: in every frame a live sparkle loses exactly one unit of life and is
\* drawn with an opacity between 0 and 1; a burst sets the life of every
\* sparkle to 100; a dead sparkle is neither moved nor drawn; the pool keeps
\* its size.
C27_SparkleFade ==
    [][ frames' # frames =>
          /\ Len(sparklesRef') = Len(sparklesRef)
          /\ \A i \in 1..SPARKLE_COUNT :
                /\ LifeAtDraw(i) > 0 =>
                      /\ sparklesRef'[i].life = LifeAtDraw(i) - 1
                      /\ calls'.sparkleFill[i] # -1 =>
                             calls'.sparkleFill[i] \in 0..1000
                /\ LifeAtDraw(i) <= 0 =>
                      /\ sparklesRef'[i] = sparklesRef[i]
                      /\ calls'.sparkleFill[i] = -1 ]_vars

\* C28: with swayValue inside the deadzone on every frame from a fresh flower,
\* no happy sway is emitted: the smoothed angle stays within the gesture
\* threshold and the gesture zone stays CENTER.
C28_NoHappySwayInDeadzone ==
    /\ calls.onHappySway = 0
    /\ Abs(swayPhysics.angle) <= SWAY_COUNT_THRESHOLD
    /\ swayStateRef = "CENTER"
    /\ lastExtremeRef = "NONE"

\* the drift has run its course on the largest motion the deadzone swallows
C28_Witness ==
    /\ frames = MaxDriftFrames
    /\ lastProps.swayValue = -149999
    /\ swayPhysics.angle # 0
    /\ calls.onHappySway = 0

====
